---------------------------- MODULE Spec2Model ----------------------------
(***************************************************************************)
(* Grist Audit Cloud (src/main.py): the snapshot reconciliation engine.    *)
(*                                                                         *)
(* The state is the JSON files of DATA_DIR, the lock file, the PROGRESS    *)
(* dictionary, the POST /run handlers, the background_audit threads with   *)
(* their local variables, and one GET /result handler.                     *)
(***************************************************************************)
EXTENDS Naturals, Integers, Sequences, FiniteSets, TLC

(***************************************************************************)
(* Bounds of the model.                                                    *)
(***************************************************************************)
\* number of POST /run requests that pass the busy check
MaxRuns == 2

\* number of calls of persist_history_from_diff made on their own
MaxCalls == 2

\* number of failures of the source (a request that fails after its retries)
\* and of the disk (a write that raises)
MaxFaults == 1

\* background_audit threads that can be alive at once
WorkerOrder == << "t1", "t2" >>
Workers == { WorkerOrder[i] : i \in 1..Len(WorkerOrder) }

\* POST /run handlers that can be in flight at once
Handlers == {"h1"}

(***************************************************************************)
(* Values of the JSON documents.                                           *)
(*                                                                         *)
(* A field value is [t, v]: t is the JSON type, v the text of a string or  *)
(* "" for an empty container and "x" for a non-empty one.  A field mapping *)
(* (a dict) is a set of <<name, value>> pairs with one pair per name, so   *)
(* that equality is equality by value, whatever the order of the keys.     *)
(***************************************************************************)
VNull      == [t |-> "null", v |-> ""]
VStr(s)    == [t |-> "str",  v |-> s]
VList(s)   == [t |-> "list", v |-> s]
VDict(s)   == [t |-> "dict", v |-> s]
VNum(s)    == [t |-> "num",  v |-> s]

\* str.strip() on the strings of the model: a whitespace-only string
\* becomes the empty string, any other string of the model has no
\* leading or trailing blank
strip(s) == IF s \in {"", " ", "  "} THEN "" ELSE s

NoFields == {}

Row(i, f) == [id |-> i, fields |-> f]

FName(s) == {<<"name", VStr(s)>>}

\* the rows fetch_rows can return in the coordinator model
SrcRows ==
  { << Row(1, FName("A")) >>,
    << Row(1, FName("B")), Row(2, NoFields) >> }

\* order of the strings that sorted() compares
TableOrder == << "T1", "T2" >>
ColOrder   == << "a", "b" >>

Rank(seq, x) == CHOOSE i \in 1..Len(seq) : seq[i] = x

FIELDS == << "type", "isFormula", "refTableId", "visibleCol", "label", "description" >>

\* ref_target(t): the table a Ref:/RefList: type points to, "" otherwise
ref_target(t) ==
  CASE t = "Ref:T1"     -> "T1"
    [] t = "Ref:T2"     -> "T2"
    [] t = "RefList:T1" -> "T1"
    [] t = "RefList:T2" -> "T2"
    [] OTHER            -> ""

\* one element of scan_schema's result, for column c of table t with the
\* given type and label (the other source fields are absent)
Col(t, c, ty, lab, p) ==
  [ tableId |-> t, colId |-> c, label |-> lab, type |-> ty,
    isFormula |-> FALSE, formula |-> "", isRef |-> ref_target(ty) # "",
    refTableId |-> ref_target(ty), visibleCol |-> 0,
    description |-> "", pos |-> p ]

\* the schemas scan_schema can return in the coordinator model
SrcSchemas ==
  { << Col("T1", "a", "Int", "A", 0), Col("T2", "a", "Ref:T1", "R", 0) >> }

(***************************************************************************)
(* Sequence helpers.                                                       *)
(***************************************************************************)
Range(s) == { s[i] : i \in 1..Len(s) }

IsPrefix(s, t) == Len(s) <= Len(t) /\ \A i \in 1..Len(s) : s[i] = t[i]

(***************************************************************************)
(* Schema Differ: _index_schema, _tables, make_schema_diff.                *)
(***************************************************************************)
\* str() of the value of a tracked field
pystr(f, v) ==
  CASE f = "isFormula"  -> IF v THEN "True" ELSE "False"
    [] f = "visibleCol" -> CASE v = 0 -> "0" [] v = 1 -> "1" [] OTHER -> "2"
    [] OTHER            -> v

Key(r) == << r.tableId, r.colId >>

\* _index_schema(rows): the dict (tableId, colId) -> descriptor; a later
\* descriptor with the same key replaces an earlier one
_index_schema(rows) ==
  [ k \in { Key(rows[i]) : i \in 1..Len(rows) } |->
      rows[ CHOOSE i \in 1..Len(rows) :
              /\ Key(rows[i]) = k
              /\ \A j \in 1..Len(rows) : Key(rows[j]) = k => j <= i ] ]

_tables(rows) == { rows[i].tableId : i \in 1..Len(rows) }

RECURSIVE sorted_tables(_)
\* sorted(S) for a set of table ids
sorted_tables(S) ==
  IF S = {} THEN << >>
  ELSE LET m == CHOOSE x \in S :
                  \A y \in S : Rank(TableOrder, x) <= Rank(TableOrder, y)
       IN  << m >> \o sorted_tables(S \ {m})

\* tuple order of Python on (tableId, colId)
KeyLeq(x, y) ==
  \/ Rank(TableOrder, x[1]) < Rank(TableOrder, y[1])
  \/ /\ x[1] = y[1]
     /\ Rank(ColOrder, x[2]) <= Rank(ColOrder, y[2])

RECURSIVE sorted_keys(_)
\* sorted(S) for a set of (tableId, colId) keys
sorted_keys(S) ==
  IF S = {} THEN << >>
  ELSE LET m == CHOOSE x \in S : \A y \in S : KeyLeq(x, y)
       IN  << m >> \o sorted_keys(S \ {m})

\* a schema change record; a key the Python dict does not hold is ""
SchemaChange(ct, t, col, f, old, new) ==
  [ changeType |-> ct, tableId |-> t, colId |-> col, field |-> f,
    oldValue |-> old, newValue |-> new ]

RECURSIVE changed_fields(_, _, _)
\* lines 186-193: one CHANGED_FIELD per tracked field that differs, for the
\* tracked fields fs in order
changed_fields(fs, c, b) ==
  IF fs = << >> THEN << >>
  ELSE LET f == Head(fs)
       IN  (IF b[f] # c[f]
            THEN << SchemaChange("CHANGED_FIELD", c.tableId, c.colId, f,
                                 pystr(f, b[f]), pystr(f, c[f])) >>
            ELSE << >>)
           \o changed_fields(Tail(fs), c, b)

RECURSIVE schema_key_records(_, _, _)
\* lines 177-193: the records of the keys ks, in order
schema_key_records(ks, ic, ib) ==
  IF ks = << >> THEN << >>
  ELSE LET k == Head(ks)
           inC == k \in DOMAIN ic
           inB == k \in DOMAIN ib
       IN  (CASE inC /\ ~inB ->
                   << SchemaChange("ADDED_COL", k[1], k[2], "", "", "") >>
              [] inB /\ ~inC ->
                   << SchemaChange("REMOVED_COL", k[1], k[2], "", "", "") >>
              [] OTHER -> changed_fields(FIELDS, ic[k], ib[k]))
           \o schema_key_records(Tail(ks), ic, ib)

\* the mutant: every table on one side only is reported ADDED_TABLE
table_records_added(ct, ts) ==
  [ i \in 1..Len(ts) |-> [ changeType |-> "ADDED_TABLE", tableId |-> ts[i],
                           colId |-> "", field |-> "", oldValue |-> "",
                           newValue |-> "" ] ]

RECURSIVE table_records(_, _)
table_records(ct, ts) ==
  IF ts = << >> THEN << >>
  ELSE << SchemaChange(ct, Head(ts), "", "", "", "") >>
       \o table_records(ct, Tail(ts))

\* the mutant: the baseline is not looked at, every table of current is
\* reported
make_schema_diff_no_base(cur, base) ==
  table_records("ADDED_TABLE", sorted_tables(_tables(cur)))

make_schema_diff(cur, base) ==
  LET ic == _index_schema(cur)
      ib == _index_schema(base)
      tc == _tables(cur)
      tb == _tables(base)
  IN  table_records("ADDED_TABLE", sorted_tables(tc \ tb))
      \o table_records("REMOVED_TABLE", sorted_tables(tb \ tc))
      \o schema_key_records(sorted_keys(DOMAIN ic \cup DOMAIN ib), ic, ib)

(***************************************************************************)
(* Content Differ: _is_empty_fields, make_equip_diff.                      *)
(***************************************************************************)
\* the mutant: only a mapping with no field at all is empty
_is_empty_fields_no_field(fields) == fields = {}

\* lines 204-214: every value is None, a blank string, an empty list or an
\* empty dict
_is_empty_fields(fields) ==
  \A p \in fields :
     LET v == p[2]
     IN  \/ v.t = "null"
         \/ v.t = "str" /\ strip(v.v) = ""
         \/ v.t = "list" /\ v.v = ""
         \/ v.t = "dict" /\ v.v = ""

\* {r["id"]: r.get("fields", {}) for r in rows}: a later row with the same
\* id replaces an earlier one
row_index(rows) ==
  [ k \in { rows[i].id : i \in 1..Len(rows) } |->
      rows[ CHOOSE i \in 1..Len(rows) :
              /\ rows[i].id = k
              /\ \A j \in 1..Len(rows) : rows[j].id = k => j <= i ].fields ]

RECURSIVE sorted_ids(_)
\* the iteration order of a set of small ints: ascending
sorted_ids(S) ==
  IF S = {} THEN << >>
  ELSE LET m == CHOOSE x \in S : \A y \in S : x <= y
       IN  << m >> \o sorted_ids(S \ {m})

RowChange(ct, rid) == [ changeType |-> ct, id |-> rid ]

RECURSIVE equip_records(_, _, _)
\* lines 224-235: the records of the ids, in order
equip_records(ids, cur_idx, base_idx) ==
  IF ids = << >> THEN << >>
  ELSE LET rid == Head(ids)
           inC == rid \in DOMAIN cur_idx
           inB == rid \in DOMAIN base_idx
       IN  (CASE inC /\ ~inB -> << RowChange("ADDED_ROW", rid) >>
              [] inB /\ ~inC -> << RowChange("REMOVED_ROW", rid) >>
              [] OTHER ->
                   IF cur_idx[rid] # base_idx[rid]
                   THEN IF _is_empty_fields(base_idx[rid])
                        THEN << RowChange("ADDED_ROW", rid) >>
                        ELSE << RowChange("CHANGED_ROW", rid) >>
                   ELSE << >>)
           \o equip_records(Tail(ids), cur_idx, base_idx)

\* the mutant: the ids are those of the baseline only
make_equip_diff_base_ids(cur, base) ==
  LET cur_idx  == row_index(cur)
      base_idx == row_index(base)
  IN  equip_records(sorted_ids(DOMAIN base_idx), cur_idx, base_idx)

\* the mutant: one pass over the ids of current, then one pass over the ids
\* of the baseline
make_equip_diff_two_passes(cur, base) ==
  LET cur_idx  == row_index(cur)
      base_idx == row_index(base)
  IN  equip_records(sorted_ids(DOMAIN cur_idx), cur_idx, base_idx)
      \o equip_records(sorted_ids(DOMAIN base_idx), cur_idx, base_idx)

make_equip_diff(cur, base) ==
  LET cur_idx  == row_index(cur)
      base_idx == row_index(base)
  IN  equip_records(sorted_ids(DOMAIN cur_idx \cup DOMAIN base_idx),
                    cur_idx, base_idx)

(***************************************************************************)
(* History Merger: the pure part of persist_history_from_diff.             *)
(***************************************************************************)
\* ct.replace("_ROW", "").lower()
action_of(ct) ==
  CASE ct = "ADDED_ROW"   -> "added"
    [] ct = "CHANGED_ROW" -> "changed"
    [] ct = "REMOVED_ROW" -> "removed"

\* the mutant: the fields of the row are not looked up
get_fields_empty(idx, rid) == NoFields

\* dict.get(rid, {})
get_fields(idx, rid) == IF rid \in DOMAIN idx THEN idx[rid] ELSE NoFields

RECURSIVE history_events(_, _, _, _)
\* lines 270-280: the events appended for the diff, in order
history_events(diff, base_idx, cur_idx, now) ==
  IF diff = << >> THEN << >>
  ELSE LET d == Head(diff)
       IN  << [ id |-> d.id, action |-> action_of(d.changeType), at |-> now,
                before |-> get_fields(base_idx, d.id),
                after  |-> get_fields(cur_idx, d.id) ] >>
           \o history_events(Tail(diff), base_idx, cur_idx, now)

\* line 267 to line 280: the list that line 286 saves
merged_history(history, diff_equip, base_equip, cur_equip, now) ==
  history \o history_events(diff_equip, row_index(base_equip),
                            row_index(cur_equip), now)

RECURSIVE removed_snaps(_, _, _)
\* lines 281-282
removed_snaps(diff, base_idx, now) ==
  IF diff = << >> THEN << >>
  ELSE LET d == Head(diff)
       IN  (IF d.changeType = "REMOVED_ROW"
            THEN << [ id |-> d.id, fields |-> get_fields(base_idx, d.id),
                      deletedAt |-> now ] >>
            ELSE << >>)
           \o removed_snaps(Tail(diff), base_idx, now)

RECURSIVE added_snaps(_, _, _)
\* lines 283-284
added_snaps(diff, cur_idx, now) ==
  IF diff = << >> THEN << >>
  ELSE LET d == Head(diff)
       IN  (IF d.changeType = "ADDED_ROW"
            THEN << [ id |-> d.id, fields |-> get_fields(cur_idx, d.id),
                      createdAt |-> now ] >>
            ELSE << >>)
           \o added_snaps(Tail(diff), cur_idx, now)

\* the duplicate suppression key of an event
EventKey(e) == << e.id, e.action, e.before, e.after >>

(***************************************************************************)
(* Status Annotator: mark_status_equip.                                    *)
(***************************************************************************)
\* the mutant: a row the diff names is never more than changed
kind_of_never_added(diff, rid) ==
  IF \E i \in 1..Len(diff) : diff[i].id = rid THEN "changed" ELSE "normal"

\* lines 240-249: the kind of row id rid, by the last record of the diff
\* that names it
kind_of(diff, rid) ==
  LET hits == { i \in 1..Len(diff) :
                  /\ diff[i].id = rid
                  /\ diff[i].changeType \in
                       {"ADDED_ROW", "CHANGED_ROW", "REMOVED_ROW"} }
  IN  IF hits = {} THEN "normal"
      ELSE action_of(diff[CHOOSE i \in hits : \A j \in hits : j <= i].changeType)

\* lines 250-254
mark_status_equip(cur, diff) ==
  [ i \in 1..Len(cur) |->
      LET k == kind_of(diff, cur[i].id)
      IN  [ id |-> cur[i].id, fields |-> cur[i].fields, kind |-> k,
            status |-> IF k = "added" THEN "added"
                       ELSE IF k = "changed" THEN "changed" ELSE "normal" ] ]

(***************************************************************************)
(* The state.                                                              *)
(***************************************************************************)
FileNames == { "CUR_SCHEMA", "CUR_EQUIP", "DIFF_SCHEMA", "DIFF_EQUIP",
               "EQUIP_HISTORY", "EQUIP_REMOVED", "EQUIP_ADDED" }

VARIABLES
  files,        \* DATA_DIR: file name -> [st, val, by]; st is "missing", "torn"
                \* (opened for writing, not completely written) or "ok"; by
                \* is the run that wrote it last
  lockFile,     \* whether LOCK_FILE exists
  PROGRESS,     \* the PROGRESS dictionary: [busy, percent, step]
  hpc,          \* POST /run handler -> "idle", "lock" or "spawn"
  ticket,       \* handler -> the ordinal of the run it starts (0 when idle)
  nruns,        \* requests that passed the busy check so far
  pc,           \* background_audit thread -> its position
  run,          \* thread -> the ordinal of its run (0 when idle)
  base_schema, base_equip, cur_schema, cur_equip,
  diff_schema, diff_equip,
  history,      \* thread -> the local list of persist_history_from_diff
  opened,       \* thread -> save_json holds the file open, truncated
  baseMissing,  \* thread -> the baseline files it found "missing" or "torn"
  fetchFailed,  \* thread -> fetch_rows raised in this run
  raisedAt,     \* thread -> where an exception left the try block ("" if none)
  saved,        \* thread -> the files this run wrote completely
  histCommitted, \* the last list completely written to EQUIP_HISTORY
  nfaults,      \* failures of the source and of the disk so far
  rpc,          \* the GET /result handler's position
  rd,           \* what the GET /result handler has loaded so far
  call,         \* the calls of persist_history_from_diff made on their own
  source        \* the row collections the target table takes in this behaviour

vars == << files, lockFile, PROGRESS, hpc, ticket, nruns, pc, run,
           base_schema, base_equip, cur_schema, cur_equip,
           diff_schema, diff_equip, history, opened,
           baseMissing, fetchFailed, raisedAt, saved, histCommitted,
           nfaults, rpc, rd, call, source >>

aux == << rpc, rd, call, source >>

locals == << base_schema, base_equip, cur_schema, cur_equip,
             diff_schema, diff_equip, history >>

ghosts == << baseMissing, fetchFailed, raisedAt, saved >>

Missing == [st |-> "missing", val |-> << >>, by |-> 0]

\* the mutant: the file is never read
load_json_default(f, default) == default

\* load_json(path, default): the default when the file is missing or
\* json.load raises
load_json(f, default) == IF f.st = "ok" THEN f.val ELSE default

\* load_json_list(path); every document of the model is a list
load_json_list(f) == load_json(f, << >>)

\* the locals of result(): the four documents, the runs that wrote the
\* content snapshot and the content diff it loaded (0: the default was
\* taken), and the annotated rows of the response
NoRead == [ cur_schema |-> << >>, cur_equip |-> << >>, diff_schema |-> << >>,
            diff_equip |-> << >>, equip_by |-> 0, diff_by |-> 0,
            equip_full |-> << >> ]

NoCall == [ base |-> << >>, cur |-> << >>, diff |-> << >>, n |-> 0,
            len1 |-> 0 ]

\* the state of the process when it starts, but for the files
InitProcess ==
  /\ lockFile = FALSE
  /\ PROGRESS = [busy |-> FALSE, percent |-> 0, step |-> ""]
  /\ hpc = [h \in Handlers |-> "idle"]
  /\ ticket = [h \in Handlers |-> 0]
  /\ nruns = 0
  /\ pc = [w \in Workers |-> "idle"]
  /\ run = [w \in Workers |-> 0]
  /\ base_schema = [w \in Workers |-> << >>]
  /\ base_equip = [w \in Workers |-> << >>]
  /\ cur_schema = [w \in Workers |-> << >>]
  /\ cur_equip = [w \in Workers |-> << >>]
  /\ diff_schema = [w \in Workers |-> << >>]
  /\ diff_equip = [w \in Workers |-> << >>]
  /\ history = [w \in Workers |-> << >>]
  /\ opened = [w \in Workers |-> FALSE]
  /\ baseMissing = [w \in Workers |-> {}]
  /\ fetchFailed = [w \in Workers |-> FALSE]
  /\ raisedAt = [w \in Workers |-> ""]
  /\ saved = [w \in Workers |-> {}]
  /\ histCommitted = << >>
  /\ nfaults = 0
  /\ rpc = "idle"
  /\ rd = NoRead

\* a fresh DATA_DIR; the target table changes between the fetches
Init ==
  /\ files = [n \in FileNames |-> Missing]
  /\ call = NoCall
  /\ source = SrcRows
  /\ InitProcess

\* a fresh DATA_DIR; the target table does not change
InitStable ==
  /\ files = [n \in FileNames |-> Missing]
  /\ call = NoCall
  /\ source = { << Row(1, FName("B")), Row(2, NoFields) >> }
  /\ InitProcess

(***************************************************************************)
(* POST /run (lines 396-402).                                              *)
(***************************************************************************)
\* line 398-399: the request is rejected with busy
RunBusy(h) ==
  /\ hpc[h] = "idle"
  /\ PROGRESS.busy
  /\ UNCHANGED vars

\* line 398: the busy check passes
RunCheck(h) ==
  /\ hpc[h] = "idle"
  /\ ~PROGRESS.busy
  /\ nruns < MaxRuns
  /\ nruns' = nruns + 1
  /\ hpc' = [hpc EXCEPT ![h] = "lock"]
  /\ ticket' = [ticket EXCEPT ![h] = nruns + 1]
  /\ UNCHANGED << files, lockFile, PROGRESS, pc, run, locals, opened, ghosts,
                  histCommitted, nfaults >>
  /\ UNCHANGED aux

\* line 400
RunLock(h) ==
  /\ hpc[h] = "lock"
  /\ lockFile' = TRUE
  /\ hpc' = [hpc EXCEPT ![h] = "spawn"]
  /\ UNCHANGED << files, PROGRESS, nruns, ticket, pc, run, locals, opened, ghosts,
                  histCommitted, nfaults >>
  /\ UNCHANGED aux

\* the slot of the next thread: thread identities are interchangeable, the
\* first free slot is taken
FreeSlot ==
  IF \E w \in Workers : pc[w] = "idle"
  THEN CHOOSE i \in 1..Len(WorkerOrder) :
         /\ pc[WorkerOrder[i]] = "idle"
         /\ \A j \in 1..(i - 1) : pc[WorkerOrder[j]] # "idle"
  ELSE 0

\* line 401-402: the thread is started
RunSpawn(h) ==
  /\ hpc[h] = "spawn"
  /\ \E w \in Workers :
       /\ FreeSlot # 0
       /\ w = WorkerOrder[FreeSlot]
       /\ pc' = [pc EXCEPT ![w] = "start"]
       /\ run' = [run EXCEPT ![w] = ticket[h]]
  /\ hpc' = [hpc EXCEPT ![h] = "idle"]
  /\ ticket' = [ticket EXCEPT ![h] = 0]
  /\ UNCHANGED << files, lockFile, PROGRESS, nruns, locals, opened, ghosts,
                  histCommitted, nfaults >>
  /\ UNCHANGED aux

(***************************************************************************)
(* background_audit (lines 347-393).                                       *)
(***************************************************************************)
handlerVars == << hpc, ticket, nruns >>

\* PROGRESS.update(d)
progress_update(d) == [ k \in DOMAIN PROGRESS |->
                          IF k \in DOMAIN d THEN d[k] ELSE PROGRESS[k] ]

Goto(w, p) == pc' = [pc EXCEPT ![w] = p]

\* the mutant: an exception ends the thread, no finally block runs
OnRaise_no_finally == "exit"

\* lines 349, 387: an exception raised in the try block runs the finally
\* block
OnRaise == "finally"

\* an exception raised at the current position leaves the try block
Raise(w) ==
  /\ raisedAt' = [raisedAt EXCEPT ![w] = pc[w]]
  /\ Goto(w, OnRaise)

\* line 348
Begin(w) ==
  /\ pc[w] = "start"
  /\ PROGRESS' = progress_update([busy |-> TRUE, percent |-> 5,
                                  step |-> "Initialisation"])
  /\ Goto(w, "load_schema")
  /\ UNCHANGED << files, lockFile, handlerVars, run, locals, opened, ghosts,
                  histCommitted, nfaults >>
  /\ UNCHANGED aux

\* line 350
LoadSchema(w) ==
  /\ pc[w] = "load_schema"
  /\ base_schema' = [base_schema EXCEPT
                       ![w] = load_json(files["CUR_SCHEMA"], << >>)]
  /\ baseMissing' = [baseMissing EXCEPT
                       ![w] = IF files["CUR_SCHEMA"].st = "ok" THEN @
                              ELSE @ \cup {<< "CUR_SCHEMA",
                                              files["CUR_SCHEMA"].st >>}]
  /\ Goto(w, "load_equip")
  /\ UNCHANGED << files, lockFile, PROGRESS, handlerVars, run, base_equip,
                  cur_schema, cur_equip, diff_schema, diff_equip, history,
                  opened, fetchFailed, raisedAt, saved, histCommitted, nfaults >>
  /\ UNCHANGED aux

\* line 351
LoadEquip(w) ==
  /\ pc[w] = "load_equip"
  /\ base_equip' = [base_equip EXCEPT
                      ![w] = load_json(files["CUR_EQUIP"], << >>)]
  /\ baseMissing' = [baseMissing EXCEPT
                       ![w] = IF files["CUR_EQUIP"].st = "ok" THEN @
                              ELSE @ \cup {<< "CUR_EQUIP",
                                              files["CUR_EQUIP"].st >>}]
  /\ Goto(w, "scan")
  /\ UNCHANGED << files, lockFile, PROGRESS, handlerVars, run, base_schema,
                  cur_schema, cur_equip, diff_schema, diff_equip, history,
                  opened, fetchFailed, raisedAt, saved, histCommitted, nfaults >>
  /\ UNCHANGED aux

\* lines 353-354, scan_schema returns
ScanOk(w) ==
  /\ pc[w] = "scan"
  /\ PROGRESS' = progress_update([percent |-> 25, step |-> "Scan du schema"])
  /\ \E s \in SrcSchemas : cur_schema' = [cur_schema EXCEPT ![w] = s]
  /\ Goto(w, "resolve")
  /\ UNCHANGED << files, lockFile, handlerVars, run, base_schema, base_equip,
                  cur_equip, diff_schema, diff_equip, history, opened, ghosts,
                  histCommitted, nfaults >>
  /\ UNCHANGED aux

\* lines 353-354, list_tables or list_columns raises after the retries of
\* _req (lines 65-77)
ScanFail(w) ==
  /\ nfaults < MaxFaults
  /\ nfaults' = nfaults + 1
  /\ pc[w] = "scan"
  /\ PROGRESS' = progress_update([percent |-> 25, step |-> "Scan du schema"])
  /\ Raise(w)
  /\ UNCHANGED << files, lockFile, handlerVars, run, locals, opened,
                  baseMissing, fetchFailed, saved, histCommitted >>
  /\ UNCHANGED aux

\* lines 356-357, resolve_target_table_id returns
ResolveOk(w) ==
  /\ pc[w] = "resolve"
  /\ PROGRESS' = progress_update([percent |-> 55, step |-> "Lecture"])
  /\ Goto(w, "fetch")
  /\ UNCHANGED << files, lockFile, handlerVars, run, locals, opened, ghosts,
                  histCommitted, nfaults >>
  /\ UNCHANGED aux

\* line 356, list_tables raises (line 118)
ResolveFail(w) ==
  /\ nfaults < MaxFaults
  /\ nfaults' = nfaults + 1
  /\ pc[w] = "resolve"
  /\ Raise(w)
  /\ UNCHANGED << files, lockFile, PROGRESS, handlerVars, run, locals, opened,
                  baseMissing, fetchFailed, saved, histCommitted >>
  /\ UNCHANGED aux

\* lines 360-361
FetchOk(w) ==
  /\ pc[w] = "fetch"
  /\ \E r \in source : cur_equip' = [cur_equip EXCEPT ![w] = r]
  /\ PROGRESS' = progress_update([step |-> "Lecture : n lignes"])
  /\ Goto(w, "diff")
  /\ UNCHANGED << files, lockFile, handlerVars, run, base_schema, base_equip,
                  cur_schema, diff_schema, diff_equip, history, opened, ghosts,
                  histCommitted, nfaults >>
  /\ UNCHANGED aux

\* the mutant: no except clause around fetch_rows, the exception leaves the
\* try block
FetchFail_uncaught(w) ==
  /\ nfaults < MaxFaults
  /\ nfaults' = nfaults + 1
  /\ pc[w] = "fetch"
  /\ fetchFailed' = [fetchFailed EXCEPT ![w] = TRUE]
  /\ Raise(w)
  /\ UNCHANGED << files, lockFile, PROGRESS, handlerVars, run, locals, opened,
                  baseMissing, saved, histCommitted >>
  /\ UNCHANGED aux

\* lines 358-363: fetch_rows raises, the except clause records it and
\* cur_equip stays []
FetchFail(w) ==
  /\ nfaults < MaxFaults
  /\ nfaults' = nfaults + 1
  /\ pc[w] = "fetch"
  /\ fetchFailed' = [fetchFailed EXCEPT ![w] = TRUE]
  /\ PROGRESS' = progress_update([step |-> "Impossible de lire"])
  /\ Goto(w, "diff")
  /\ UNCHANGED << files, lockFile, handlerVars, run, locals, opened,
                  baseMissing, raisedAt, saved, histCommitted >>
  /\ UNCHANGED aux

\* lines 365-367
Diff(w) ==
  /\ pc[w] = "diff"
  /\ PROGRESS' = progress_update([percent |-> 75,
                                  step |-> "Calcul des differences"])
  /\ diff_schema' = [diff_schema EXCEPT
                       ![w] = make_schema_diff(cur_schema[w], base_schema[w])]
  /\ diff_equip' = [diff_equip EXCEPT
                      ![w] = make_equip_diff(cur_equip[w], base_equip[w])]
  /\ Goto(w, "history")
  /\ UNCHANGED << files, lockFile, handlerVars, run, base_schema, base_equip,
                  cur_schema, cur_equip, history, opened, ghosts,
                  histCommitted, nfaults >>
  /\ UNCHANGED aux

\* lines 263-284: persist_history_from_diff up to its first save
MergeHistory(w) ==
  /\ pc[w] = "history"
  /\ history' = [history EXCEPT
                   ![w] = merged_history(load_json_list(files["EQUIP_HISTORY"]),
                                         diff_equip[w], base_equip[w],
                                         cur_equip[w], run[w])]
  /\ Goto(w, "save_history")
  /\ UNCHANGED << files, lockFile, PROGRESS, handlerVars, run, base_schema,
                  base_equip, cur_schema, cur_equip, diff_schema, diff_equip,
                  opened, ghosts, histCommitted, nfaults >>
  /\ UNCHANGED aux

(***************************************************************************)
(* save_json (lines 47-49): open(path, "w") truncates the file, json.dump  *)
(* writes it; a reader in between finds a document json.load rejects.      *)
(***************************************************************************)
SavePcs == { "save_history", "save_removed", "save_added", "save_schema",
             "save_equip", "save_diff_schema", "save_diff_equip" }

\* the file each save_json call writes
SaveFile(p) ==
  CASE p = "save_history"     -> "EQUIP_HISTORY"
    [] p = "save_removed"     -> "EQUIP_REMOVED"
    [] p = "save_added"       -> "EQUIP_ADDED"
    [] p = "save_schema"      -> "CUR_SCHEMA"
    [] p = "save_equip"       -> "CUR_EQUIP"
    [] p = "save_diff_schema" -> "DIFF_SCHEMA"
    [] p = "save_diff_equip"  -> "DIFF_EQUIP"

\* the object each save_json call writes
SaveValue(w) ==
  CASE pc[w] = "save_history"     -> history[w]
    [] pc[w] = "save_removed"     ->
         removed_snaps(diff_equip[w], row_index(base_equip[w]), run[w])
    [] pc[w] = "save_added"       ->
         added_snaps(diff_equip[w], row_index(cur_equip[w]), run[w])
    [] pc[w] = "save_schema"      -> cur_schema[w]
    [] pc[w] = "save_equip"       -> cur_equip[w]
    [] pc[w] = "save_diff_schema" -> diff_schema[w]
    [] pc[w] = "save_diff_equip"  -> diff_equip[w]

\* the statement that follows each save_json call (lines 286-288, 379-385)
AfterSave(p) ==
  CASE p = "save_history"     -> "save_removed"
    [] p = "save_removed"     -> "save_added"
    [] p = "save_added"       -> "sauvegarde"
    [] p = "save_schema"      -> "save_equip"
    [] p = "save_equip"       -> "save_diff_schema"
    [] p = "save_diff_schema" -> "save_diff_equip"
    [] p = "save_diff_equip"  -> "done"

\* line 48: open(path, "w")
SaveOpen(w) ==
  /\ pc[w] \in SavePcs
  /\ ~opened[w]
  /\ opened' = [opened EXCEPT ![w] = TRUE]
  /\ files' = [files EXCEPT
                 ![SaveFile(pc[w])] = [st |-> "torn", val |-> << >>,
                                       by |-> run[w]]]
  /\ UNCHANGED << lockFile, PROGRESS, handlerVars, pc, run, locals, ghosts,
                  histCommitted, nfaults >>
  /\ UNCHANGED aux

\* line 49: json.dump writes the document and the file is closed
SaveDump(w) ==
  /\ pc[w] \in SavePcs
  /\ opened[w]
  /\ opened' = [opened EXCEPT ![w] = FALSE]
  /\ files' = [files EXCEPT
                 ![SaveFile(pc[w])] = [st |-> "ok", val |-> SaveValue(w),
                                       by |-> run[w]]]
  /\ saved' = [saved EXCEPT ![w] = @ \cup {SaveFile(pc[w])}]
  /\ histCommitted' = IF pc[w] = "save_history" THEN history[w]
                      ELSE histCommitted
  /\ Goto(w, AfterSave(pc[w]))
  /\ UNCHANGED << nfaults, lockFile, PROGRESS, handlerVars, run, locals, baseMissing,
                  fetchFailed, raisedAt >>
  /\ UNCHANGED aux

\* line 49: the write raises (OSError), the file stays truncated
SaveFail(w) ==
  /\ nfaults < MaxFaults
  /\ nfaults' = nfaults + 1
  /\ pc[w] \in SavePcs
  /\ opened[w]
  /\ opened' = [opened EXCEPT ![w] = FALSE]
  /\ Raise(w)
  /\ UNCHANGED << files, lockFile, PROGRESS, handlerVars, run, locals,
                  baseMissing, fetchFailed, saved, histCommitted >>
  /\ UNCHANGED aux

\* line 379
Sauvegarde(w) ==
  /\ pc[w] = "sauvegarde"
  /\ PROGRESS' = progress_update([percent |-> 90, step |-> "Sauvegarde"])
  /\ Goto(w, "save_schema")
  /\ UNCHANGED << files, lockFile, handlerVars, run, locals, opened, ghosts,
                  histCommitted, nfaults >>
  /\ UNCHANGED aux

\* lines 385-386
Done(w) ==
  /\ pc[w] = "done"
  /\ PROGRESS' = progress_update([percent |-> 100, step |-> "Termine"])
  /\ Goto(w, "finally")
  /\ UNCHANGED << files, lockFile, handlerVars, run, locals, opened, ghosts,
                  histCommitted, nfaults >>
  /\ UNCHANGED aux

\* line 388
Finally(w) ==
  /\ pc[w] = "finally"
  /\ PROGRESS' = progress_update([busy |-> FALSE])
  /\ Goto(w, "unlock")
  /\ UNCHANGED << files, lockFile, handlerVars, run, locals, opened, ghosts,
                  histCommitted, nfaults >>
  /\ UNCHANGED aux

\* lines 389-393; the thread ends and its locals are gone
Unlock(w) ==
  /\ pc[w] = "unlock"
  /\ lockFile' = FALSE
  /\ Goto(w, "idle")
  /\ run' = [run EXCEPT ![w] = 0]
  /\ base_schema' = [base_schema EXCEPT ![w] = << >>]
  /\ base_equip' = [base_equip EXCEPT ![w] = << >>]
  /\ cur_schema' = [cur_schema EXCEPT ![w] = << >>]
  /\ cur_equip' = [cur_equip EXCEPT ![w] = << >>]
  /\ diff_schema' = [diff_schema EXCEPT ![w] = << >>]
  /\ diff_equip' = [diff_equip EXCEPT ![w] = << >>]
  /\ history' = [history EXCEPT ![w] = << >>]
  /\ baseMissing' = [baseMissing EXCEPT ![w] = {}]
  /\ fetchFailed' = [fetchFailed EXCEPT ![w] = FALSE]
  /\ raisedAt' = [raisedAt EXCEPT ![w] = ""]
  /\ saved' = [saved EXCEPT ![w] = {}]
  /\ UNCHANGED << files, PROGRESS, handlerVars, opened, histCommitted, nfaults >>
  /\ UNCHANGED aux

(***************************************************************************)
(* The coordinator: requests and background threads under every            *)
(* interleaving.                                                           *)
(***************************************************************************)
Request(h) == RunBusy(h) \/ RunCheck(h) \/ RunLock(h) \/ RunSpawn(h)

Audit(w) ==
  \/ Begin(w) \/ LoadSchema(w) \/ LoadEquip(w)
  \/ ScanOk(w) \/ ScanFail(w) \/ ResolveOk(w) \/ ResolveFail(w)
  \/ FetchOk(w) \/ FetchFail(w)
  \/ Diff(w) \/ MergeHistory(w)
  \/ SaveOpen(w) \/ SaveDump(w) \/ SaveFail(w)
  \/ Sauvegarde(w) \/ Done(w) \/ Finally(w) \/ Unlock(w)

Next == (\E h \in Handlers : Request(h)) \/ (\E w \in Workers : Audit(w))

Spec == Init /\ [][Next]_vars

(***************************************************************************)
(* GET /result (lines 404-423).  The default of each load_json call is     *)
(* evaluated before the call: scan_schema and fetch_rows run in every      *)
(* request.                                                                *)
(***************************************************************************)
coordVars == << files, lockFile, PROGRESS, handlerVars, pc, run, locals,
                opened, ghosts, histCommitted >>

\* the run that wrote the document load_json returns, 0 for the default
LoadedFrom(f) == IF f.st = "ok" THEN f.by ELSE 0

\* a GET /result request arrives
ResultBegin ==
  /\ rpc = "idle"
  /\ rpc' = "schema"
  /\ UNCHANGED << coordVars, nfaults, rd, call, source >>

\* line 407
ResultSchema ==
  /\ rpc = "schema"
  /\ \E s \in SrcSchemas :
       rd' = [rd EXCEPT !.cur_schema = load_json(files["CUR_SCHEMA"], s)]
  /\ rpc' = "equip"
  /\ UNCHANGED << coordVars, nfaults, call, source >>

\* line 408
ResultEquip ==
  /\ rpc = "equip"
  /\ \E r \in source :
       rd' = [rd EXCEPT !.cur_equip = load_json(files["CUR_EQUIP"], r),
                        !.equip_by = LoadedFrom(files["CUR_EQUIP"])]
  /\ rpc' = "diff_schema"
  /\ UNCHANGED << coordVars, nfaults, call, source >>

\* lines 407-408: scan_schema, resolve_target_table_id or fetch_rows raises,
\* the request fails
ResultFail ==
  /\ rpc \in {"schema", "equip"}
  /\ nfaults < MaxFaults
  /\ nfaults' = nfaults + 1
  /\ rpc' = "idle"
  /\ rd' = NoRead
  /\ UNCHANGED << coordVars, call, source >>

\* line 409
ResultDiffSchema ==
  /\ rpc = "diff_schema"
  /\ rd' = [rd EXCEPT !.diff_schema = load_json(files["DIFF_SCHEMA"], << >>)]
  /\ rpc' = "diff_equip"
  /\ UNCHANGED << coordVars, nfaults, call, source >>

\* lines 410-423
ResultDiffEquip ==
  /\ rpc = "diff_equip"
  /\ LET d == load_json(files["DIFF_EQUIP"], << >>)
     IN  rd' = [rd EXCEPT !.diff_equip = d,
                          !.diff_by = LoadedFrom(files["DIFF_EQUIP"]),
                          !.equip_full = mark_status_equip(rd.cur_equip, d)]
  /\ rpc' = "done"
  /\ UNCHANGED << coordVars, nfaults, call, source >>

\* the response is sent
ResultReturn ==
  /\ rpc = "done"
  /\ rpc' = "idle"
  /\ rd' = NoRead
  /\ UNCHANGED << coordVars, nfaults, call, source >>

Result ==
  \/ ResultBegin \/ ResultSchema \/ ResultEquip \/ ResultFail
  \/ ResultDiffSchema \/ ResultDiffEquip \/ ResultReturn

\* no request is being handled and no thread is alive
Quiescent ==
  /\ \A w \in Workers : pc[w] = "idle"
  /\ \A h \in Handlers : hpc[h] = "idle"

\* the threads run to their end: a started thread is scheduled again and
\* again, and a handler that passed the busy check goes on to start its
\* thread; a request need never arrive
FairSpec ==
  /\ InitStable /\ [][Next]_vars
  /\ \A w \in Workers : WF_vars(Audit(w))
  /\ \A h \in Handlers : WF_vars(RunLock(h) \/ RunSpawn(h))

(***************************************************************************)
(* Runs in sequence: every request arrives while no run is in progress.    *)
(***************************************************************************)
RunCheckIdle(h) == Quiescent /\ RunCheck(h)

RequestSeq(h) == RunBusy(h) \/ RunCheckIdle(h) \/ RunLock(h) \/ RunSpawn(h)

NextSeq ==
  (\E h \in Handlers : RequestSeq(h)) \/ (\E w \in Workers : Audit(w))

SpecSeq == Init /\ [][NextSeq]_vars

(***************************************************************************)
(* Runs in sequence and GET /result requests at any time.                  *)
(***************************************************************************)
NextResult == NextSeq \/ Result

SpecResult == Init /\ [][NextResult]_vars

(***************************************************************************)
(* persist_history_from_diff called on its own (lines 257-288): the calls  *)
(* are made one after the other with the same diff, the same baseline rows *)
(* and the same current rows, on the files the call before left.           *)
(***************************************************************************)
\* the row collections of the calls
MergeRows ==
  { << >>,
    << Row(1, FName("A")) >>,
    << Row(1, FName("B")) >>,
    << Row(2, FName("A")) >>,
    << Row(1, FName("A")), Row(2, NoFields) >>,
    << Row(1, FName("B")), Row(2, FName("A")) >> }

\* the histories the first call can find
MergeHistories ==
  { << >>,
    << [ id |-> 1, action |-> "added", at |-> 0, before |-> NoFields,
         after |-> FName("A") ] >> }

Written(v, now) == [st |-> "ok", val |-> v, by |-> now]

\* the files after persist_history_from_diff returns
persist_history_from_diff(fs, diff_equip_, base_equip_, cur_equip_, now) ==
  [ fs EXCEPT
      !["EQUIP_HISTORY"] =
         Written(merged_history(load_json_list(fs["EQUIP_HISTORY"]),
                                diff_equip_, base_equip_, cur_equip_, now), now),
      !["EQUIP_REMOVED"] =
         Written(removed_snaps(diff_equip_, row_index(base_equip_), now), now),
      !["EQUIP_ADDED"] =
         Written(added_snaps(diff_equip_, row_index(cur_equip_), now), now) ]

InitMerge ==
  /\ \E h \in MergeHistories :
       files = [n \in FileNames |->
                  IF n = "EQUIP_HISTORY" /\ h # << >> THEN Written(h, 0)
                  ELSE Missing]
  /\ \E b \in MergeRows, c \in MergeRows :
       call = [ base |-> b, cur |-> c, diff |-> make_equip_diff(c, b),
                n |-> 0, len1 |-> 0 ]
  /\ source = SrcRows
  /\ InitProcess

PersistCall ==
  /\ call.n < MaxCalls
  /\ files' = persist_history_from_diff(files, call.diff, call.base, call.cur,
                                        call.n + 1)
  /\ call' = [call EXCEPT
                !.n = @ + 1,
                !.len1 = IF call.n = 0
                         THEN Len(files'["EQUIP_HISTORY"].val) ELSE @]
  /\ UNCHANGED << lockFile, PROGRESS, handlerVars, pc, run, locals, opened,
                  ghosts, histCommitted, nfaults, rpc, rd, source >>

NextMerge == PersistCall

SpecMerge == InitMerge /\ [][NextMerge]_vars

(***************************************************************************)
(* The differs and the status annotator called on their own: make_equip_   *)
(* diff (lines 216-236) and mark_status_equip (lines 238-254) on row       *)
(* collections, make_schema_diff (lines 167-194) on schema snapshots.      *)
(***************************************************************************)
\* field mappings: no field, one field of every kind of value, two fields
DiffFields ==
  { NoFields,
    {<<"name", VNull>>},
    {<<"name", VStr("")>>},
    {<<"name", VStr(" ")>>},
    {<<"name", VList("")>>},
    {<<"name", VDict("")>>},
    {<<"name", VList("x")>>},
    {<<"name", VDict("x")>>},
    {<<"name", VNum("0")>>},
    FName("A"),
    FName("B"),
    {<<"name", VNull>>, <<"tags", VList("")>>},
    {<<"name", VStr("A")>>, <<"tags", VList("")>>} }

\* row collections: empty, one row, two rows, the same id twice
DiffRows ==
  { << >> }
  \cup { << Row(1, f) >> : f \in DiffFields }
  \cup { << Row(1, f), Row(2, g) >> : f \in {NoFields, FName("A")},
                                      g \in {FName("A"), FName("B")} }
  \cup { << Row(2, FName("A")) >>,
         << Row(1, FName("A")), Row(1, FName("B")) >>,
         << Row(1, FName("B")), Row(1, NoFields) >> }

\* schema snapshots: tables and columns added and removed, a type, a label
\* and a formula flag changed, the same (table, column) twice
DiffSchemas ==
  { << >>,
    << Col("T1", "a", "Int", "A", 0) >>,
    << Col("T1", "a", "Text", "A", 0) >>,
    << Col("T1", "a", "Int", "Z", 0) >>,
    << [Col("T1", "a", "Int", "A", 0) EXCEPT !.isFormula = TRUE] >>,
    << Col("T1", "a", "Int", "A", 0), Col("T1", "b", "Text", "B", 1) >>,
    << Col("T2", "a", "Ref:T1", "R", 0) >>,
    << Col("T1", "a", "Int", "A", 0), Col("T2", "a", "Ref:T1", "R", 0) >>,
    << Col("T1", "a", "Int", "A", 0), Col("T1", "a", "Text", "A", 1) >> }

\* the arguments of a call and nothing returned yet
NoDiffCall(f, c, b) ==
  [ fn |-> f, cur |-> c, base |-> b, done |-> FALSE, out |-> << >>,
    rev |-> << >>, marked |-> FALSE, rows |-> << >>, full |-> << >> ]

InitDiff ==
  /\ files = [n \in FileNames |-> Missing]
  /\ \/ \E c \in DiffRows, b \in DiffRows :
          call = NoDiffCall("make_equip_diff", c, b)
     \/ \E c \in DiffSchemas, b \in DiffSchemas :
          call = NoDiffCall("make_schema_diff", c, b)
  /\ source = SrcRows
  /\ InitProcess

diffFrame ==
  << files, lockFile, PROGRESS, handlerVars, pc, run, locals, opened,
     ghosts, histCommitted, nfaults, rpc, rd, source >>

\* make_equip_diff(cur, base)
EquipDiffCall ==
  /\ call.fn = "make_equip_diff"
  /\ ~call.done
  /\ call' = [call EXCEPT !.done = TRUE,
                          !.out = make_equip_diff(call.cur, call.base)]
  /\ UNCHANGED diffFrame

\* make_schema_diff(cur, base) and make_schema_diff(base, cur)
SchemaDiffCall ==
  /\ call.fn = "make_schema_diff"
  /\ ~call.done
  /\ call' = [call EXCEPT !.done = TRUE,
                          !.out = make_schema_diff(call.cur, call.base),
                          !.rev = make_schema_diff(call.base, call.cur)]
  /\ UNCHANGED diffFrame

\* mark_status_equip(rows, diff) with a diff that make_equip_diff returned
\* and any row collection
MarkCall ==
  /\ call.fn = "make_equip_diff"
  /\ call.done
  /\ ~call.marked
  /\ \E r \in DiffRows :
       call' = [call EXCEPT !.marked = TRUE, !.rows = r,
                            !.full = mark_status_equip(r, call.out)]
  /\ UNCHANGED diffFrame

NextDiff == EquipDiffCall \/ SchemaDiffCall \/ MarkCall

SpecDiff == InitDiff /\ [][NextDiff]_vars

(***************************************************************************)
(* The claims.                                                             *)
(***************************************************************************)
\* background_audit has executed line 348 and has not returned
Executing(w) == pc[w] \notin {"idle", "start"}

\* C1: at most one background_audit executes at any time, whatever the
\* interleaving of the POST /run handlers and the background threads.
C1_SingleFlight == Cardinality({ w \in Workers : Executing(w) }) <= 1

\* the events EQUIP_HISTORY holds, as load_json_list reads them
PersistedHistory == load_json_list(files["EQUIP_HISTORY"])

\* C2: the History Merger is idempotent: a second call with the same diff,
\* the same baseline rows and the same current rows, on the history the first
\* call left, adds no event; the history is as long as after the first call.
C2_MergeIdempotent == call.n >= 2 => Len(PersistedHistory) = call.len1

\* C3: after any sequence of runs, replays included, the persisted history
\* never holds two events with the same key (row id, action, before, after).
C3_NoDuplicateKeys ==
  \A i, j \in 1..Len(PersistedHistory) :
     i # j => EventKey(PersistedHistory[i]) # EventKey(PersistedHistory[j])

\* C4: the event history is append-only: each list written to EQUIP_HISTORY
\* extends the list written before it, every earlier event kept, unmodified
\* and in the same order.
C4_AppendOnly == [][IsPrefix(histCommitted, histCommitted')]_vars

C6_ResultFromOneRun == rpc = "done" => rd.equip_by = rd.diff_by

\* the positions inside persist_history_from_diff
HistoryPcs == { "history", "save_history", "save_removed", "save_added" }

\* the files of the primary result
PrimaryFiles == { "CUR_SCHEMA", "CUR_EQUIP", "DIFF_SCHEMA", "DIFF_EQUIP" }

\* the run of thread w has left the try block
Ended(w) == pc[w] = "unlock"

\* C7: a run whose history merge raised has still saved the schema snapshot,
\* the content snapshot, the schema diff and the content diff when it ends.
C7_PrimarySavedDespiteHistory ==
  \A w \in Workers :
     (Ended(w) /\ raisedAt[w] \in HistoryPcs) => PrimaryFiles \subseteq saved[w]

\* the file holds what thread w computed, whenever its run wrote it last
HoldsOwn(w, name, value) ==
  (files[name].st = "ok" /\ files[name].by = run[w]) => files[name].val = value

\* C8: when the content fetch fails, the run is not aborted by it: it goes on
\* with an empty content set, and unless a later step raises, it has written
\* the schema snapshot and the schema diff it computed when it ends.
C8_FetchFailureContinues ==
  \A w \in Workers :
     fetchFailed[w] =>
       /\ raisedAt[w] # "fetch"
       /\ cur_equip[w] = << >>
       /\ (Ended(w) /\ raisedAt[w] = "") =>
            /\ {"CUR_SCHEMA", "DIFF_SCHEMA"} \subseteq saved[w]
            /\ HoldsOwn(w, "CUR_SCHEMA", cur_schema[w])
            /\ HoldsOwn(w, "DIFF_SCHEMA",
                        make_schema_diff(cur_schema[w], base_schema[w]))

\* a run whose content fetch failed has ended with its schema snapshot and
\* its schema diff on disk
C8_Witness ==
  \E w \in Workers :
     /\ fetchFailed[w]
     /\ Ended(w)
     /\ cur_schema[w] # << >>
     /\ files["CUR_SCHEMA"] = [st |-> "ok", val |-> cur_schema[w],
                               by |-> run[w]]
     /\ files["DIFF_SCHEMA"] = [st |-> "ok", val |-> diff_schema[w],
                                by |-> run[w]]
     /\ diff_schema[w] # << >>

\* the step descriptions that record a failure reason (line 363)
FailureSteps == { "Impossible de lire" }

\* C9: when a fetch against the source fails after its retries, in the schema
\* scan, in the table resolution or in the content read, the run does not
\* crash and its failure reason is in the step description when it ends.
C9_FailureRecorded ==
  \A w \in Workers :
     (Ended(w) /\ (fetchFailed[w] \/ raisedAt[w] \in {"scan", "resolve"})) =>
       /\ raisedAt[w] = ""
       /\ PROGRESS.step \in FailureSteps

\* thread w has computed its diffs (lines 366-367)
DiffDone(w) ==
  /\ pc[w] \notin { "idle", "start", "load_schema", "load_equip", "scan",
                    "resolve", "fetch", "diff" }
  /\ raisedAt[w] \notin { "scan", "resolve" }

RowIds(rows) == { rows[i].id : i \in 1..Len(rows) }

\* C10: a run that found its baseline missing or unreadable treats it as
\* empty: the content diff holds exactly one ADDED_ROW for every current row
\* id, and the schema diff exactly one ADDED_TABLE for every current table
\* and one ADDED_COL for every current (table, column), and nothing else.
C10_EmptyBaselineAllAdded ==
  \A w \in Workers :
     DiffDone(w) =>
       /\ (\E st \in {"missing", "torn"} : << "CUR_EQUIP", st >> \in baseMissing[w])
            => /\ Range(diff_equip[w])
                    = { RowChange("ADDED_ROW", i) : i \in RowIds(cur_equip[w]) }
               /\ Len(diff_equip[w]) = Cardinality(RowIds(cur_equip[w]))
       /\ (\E st \in {"missing", "torn"} : << "CUR_SCHEMA", st >> \in baseMissing[w])
            => /\ Range(diff_schema[w])
                    = { SchemaChange("ADDED_TABLE", t, "", "", "", "") :
                          t \in _tables(cur_schema[w]) }
                      \cup
                      { SchemaChange("ADDED_COL", k[1], k[2], "", "", "") :
                          k \in DOMAIN _index_schema(cur_schema[w]) }
               /\ Len(diff_schema[w])
                    = Cardinality(_tables(cur_schema[w]))
                      + Cardinality(DOMAIN _index_schema(cur_schema[w]))

\* a run that found both baseline files unreadable (opened for writing and
\* not completely written) has diffed a non-empty source against them
C10_Witness ==
  \E w \in Workers :
     /\ DiffDone(w)
     /\ baseMissing[w] = { << "CUR_SCHEMA", "torn" >>, << "CUR_EQUIP", "torn" >> }
     /\ Len(diff_equip[w]) = 2
     /\ Len(diff_schema[w]) = 4

\* the call of make_equip_diff has returned
EquipDiffDone == call.fn = "make_equip_diff" /\ call.done

\* every value is absent, a blank or whitespace-only string, an empty
\* sequence or an empty mapping
EffectivelyEmpty(f) ==
  \A p \in f :
     p[2] \in { VNull, VStr(""), VStr(" "), VStr("  "), VList(""), VDict("") }

\* the ids that the two collections share
SharedIds(c, b) == RowIds(c) \cap RowIds(b)

\* the change types of the records of the diff for row id i
TypesOf(diff, i) ==
  { diff[k].changeType : k \in { j \in 1..Len(diff) : diff[j].id = i } }

\* C11: for a row id in both baseline and current whose fields differ,
\* make_equip_diff emits ADDED_ROW and no CHANGED_ROW when the baseline
\* mapping is effectively empty, and CHANGED_ROW when it is not.
C11_EmptyBaselineRowIsAdded ==
  EquipDiffDone =>
    \A i \in SharedIds(call.cur, call.base) :
       LET c == row_index(call.cur)[i]
           b == row_index(call.base)[i]
       IN  c # b =>
             TypesOf(call.out, i)
               = IF EffectivelyEmpty(b) THEN {"ADDED_ROW"} ELSE {"CHANGED_ROW"}

\* a baseline row that holds one whitespace-only string, changed in current,
\* is reported ADDED_ROW
C11_Witness ==
  /\ EquipDiffDone
  /\ call.base = << Row(1, {<<"name", VStr(" ")>>}) >>
  /\ call.cur = << Row(1, FName("A")) >>
  /\ call.out = << RowChange("ADDED_ROW", 1) >>

\* the number of records of the diff for row id i
CountOf(diff, i) == Cardinality({ j \in 1..Len(diff) : diff[j].id = i })

\* C12: make_equip_diff emits at most one record per row id: ADDED_ROW for an
\* id only in current, REMOVED_ROW for an id only in baseline, one record for
\* an id in both with unequal mappings, none for an id in both with equal
\* mappings, and no record for any other id.
C12_OneRecordPerRowId ==
  EquipDiffDone =>
    LET C == RowIds(call.cur)
        B == RowIds(call.base)
    IN  /\ \A k \in 1..Len(call.out) : call.out[k].id \in C \cup B
        /\ \A i \in C \ B : /\ CountOf(call.out, i) = 1
                            /\ TypesOf(call.out, i) = {"ADDED_ROW"}
        /\ \A i \in B \ C : /\ CountOf(call.out, i) = 1
                            /\ TypesOf(call.out, i) = {"REMOVED_ROW"}
        /\ \A i \in C \cap B :
              CountOf(call.out, i)
                = IF row_index(call.cur)[i] # row_index(call.base)[i]
                  THEN 1 ELSE 0

\* two current rows, one new and one changed, give one record each
C12_Witness ==
  /\ EquipDiffDone
  /\ call.cur = << Row(1, FName("A")), Row(2, FName("B")) >>
  /\ call.base = << Row(2, FName("A")) >>
  /\ call.out = << RowChange("ADDED_ROW", 1), RowChange("CHANGED_ROW", 2) >>

\* the call of make_schema_diff has returned
SchemaDiffDone == call.fn = "make_schema_diff" /\ call.done

\* C13: diffing a snapshot against itself yields no change record:
\* make_schema_diff(S, S) and make_equip_diff(C, C) are empty.
C13_SelfDiffEmpty ==
  (call.done /\ call.cur = call.base) => call.out = << >>

\* a schema snapshot of two tables was diffed against itself
C13_Witness ==
  /\ SchemaDiffDone
  /\ call.cur = << Col("T1", "a", "Int", "A", 0), Col("T2", "a", "Ref:T1", "R", 0) >>
  /\ call.base = call.cur
  /\ call.out = << >>

\* ADDED relabelled REMOVED and REMOVED relabelled ADDED, tables and columns
Relabel(ct) ==
  CASE ct = "ADDED_TABLE"   -> "REMOVED_TABLE"
    [] ct = "REMOVED_TABLE" -> "ADDED_TABLE"
    [] ct = "ADDED_COL"     -> "REMOVED_COL"
    [] ct = "REMOVED_COL"   -> "ADDED_COL"
    [] OTHER                -> ct

Relabelled(diff) ==
  [ i \in 1..Len(diff) |-> [diff[i] EXCEPT !.changeType = Relabel(@)] ]

\* relabelled, and the old and the new value of every record exchanged
Mirrored(diff) ==
  [ i \in 1..Len(diff) |->
      [diff[i] EXCEPT !.changeType = Relabel(@),
                      !.oldValue = diff[i].newValue,
                      !.newValue = diff[i].oldValue] ]

\* C14 as stated: make_schema_diff(A, B) with ADDED and REMOVED relabelled is
\* make_schema_diff(B, A).
C14_RelabelReproduces ==
  SchemaDiffDone => Relabelled(call.out) = call.rev

\* C14: make_schema_diff(A, B) with ADDED and REMOVED relabelled and the old
\* and new values of the CHANGED_FIELD records exchanged holds the records of
\* make_schema_diff(B, A), each once, up to their order.
C14_MirrorReproduces ==
  SchemaDiffDone =>
    /\ Range(Mirrored(call.out)) = Range(call.rev)
    /\ Len(call.out) = Len(call.rev)
    /\ Cardinality(Range(call.rev)) = Len(call.rev)

\* two snapshots with a table on each side only and a column of a shared
\* table whose type differs were diffed both ways
C14_Witness ==
  /\ SchemaDiffDone
  /\ call.cur = << Col("T1", "a", "Int", "A", 0), Col("T2", "a", "Ref:T1", "R", 0) >>
  /\ call.base = << Col("T1", "a", "Text", "A", 0) >>
  /\ \E i \in 1..Len(call.out) : call.out[i].changeType = "CHANGED_FIELD"
  /\ \E i \in 1..Len(call.out) : call.out[i].changeType = "ADDED_TABLE"
  /\ \E i \in 1..Len(call.rev) : call.rev[i].changeType = "REMOVED_COL"

\* the call of mark_status_equip has returned
MarkDone == call.fn = "make_equip_diff" /\ call.marked

\* C15: mark_status_equip classifies a row whose id has no record in the diff
\* normal, and a row whose id has an ADDED_ROW record in the diff added.
C15_AnnotatorClassifies ==
  MarkDone =>
    /\ Len(call.full) = Len(call.rows)
    /\ \A i \in 1..Len(call.rows) :
          LET rid == call.rows[i].id
              r   == call.full[i]
          IN  /\ r.id = rid
              /\ CountOf(call.out, rid) = 0
                   => r.kind = "normal" /\ r.status = "normal"
              /\ "ADDED_ROW" \in TypesOf(call.out, rid)
                   => r.kind = "added" /\ r.status = "added"

\* two rows were annotated with a diff that names the first one ADDED_ROW and
\* does not name the second
C15_Witness ==
  /\ MarkDone
  /\ call.out = << RowChange("ADDED_ROW", 1) >>
  /\ call.rows = << Row(1, FName("A")), Row(2, FName("A")) >>
  /\ call.full[1].kind = "added"
  /\ call.full[2].kind = "normal"

\* the field mapping of row id i in the collection, empty when it has none
FieldsOf(rows, i) ==
  IF i \in RowIds(rows) THEN row_index(rows)[i] ELSE NoFields

\* the tag of a change record, as an action
TagOf(ct) ==
  CASE ct = "ADDED_ROW"   -> "added"
    [] ct = "CHANGED_ROW" -> "changed"
    [] ct = "REMOVED_ROW" -> "removed"

\* C16: for every change record of the diff, persist_history_from_diff
\* records an event with the record's id and tag, before = the baseline
\* mapping of the id (empty when absent), after = the current mapping of the
\* id (empty when absent); a REMOVED_ROW has after empty.
C16_EventBeforeAfter ==
  call.n >= 1 =>
    LET H == PersistedHistory
        L == Len(call.diff)
    IN  /\ Len(H) >= L
        /\ \A i \in 1..L :
              LET d == call.diff[i]
                  e == H[Len(H) - L + i]
              IN  /\ e.id = d.id
                  /\ e.action = TagOf(d.changeType)
                  /\ e.before = FieldsOf(call.base, d.id)
                  /\ e.after = FieldsOf(call.cur, d.id)
                  /\ d.changeType = "REMOVED_ROW" => e.after = NoFields

\* a call with one changed and one added row has written its two events
C16_Witness ==
  /\ call.n = 1
  /\ call.base = << Row(1, FName("A")) >>
  /\ call.cur = << Row(1, FName("B")), Row(2, FName("A")) >>
  /\ Len(PersistedHistory) = 2
  /\ PersistedHistory[1].action = "changed"
  /\ PersistedHistory[1].before = FName("A")
  /\ PersistedHistory[1].after = FName("B")
  /\ PersistedHistory[2].action = "added"
  /\ PersistedHistory[2].before = NoFields

\* C17: while busy is true the published percentage never decreases: a step
\* taken with busy true before and after it leaves PROGRESS.percent greater
\* than or equal to what it was.
C17_PercentMonotonic ==
  [][(PROGRESS.busy /\ PROGRESS'.busy)
       => PROGRESS'.percent >= PROGRESS.percent]_vars

\* the positions of a run between its diffs and its first primary save
RerunPcs ==
  { "history", "save_history", "save_removed", "save_added", "sauvegarde" }

\* the run before that of thread w completed normally: it wrote the last of
\* its files, and its four primary files are on disk as it wrote them
AfterNormalRun(w) ==
  /\ pc[w] \in RerunPcs
  /\ run[w] > 1
  /\ baseMissing[w] = {}
  /\ \A n \in PrimaryFiles : files[n].st = "ok" /\ files[n].by = run[w] - 1

\* thread w fetched the schema and the rows that the run before it fetched
SameSource(w) ==
  /\ ~fetchFailed[w]
  /\ cur_schema[w] = files["CUR_SCHEMA"].val
  /\ cur_equip[w] = files["CUR_EQUIP"].val
  /\ cur_equip[w] # << >>

UnchangedRerun(w) == AfterNormalRun(w) /\ SameSource(w)

\* C18: a run that follows a normally completed run and fetches the same
\* schema and the same rows computes an empty schema diff and an empty
\* content diff, and the history it writes is the history written before it,
\* same events and same length.
C18_UnchangedRerun ==
  /\ [](\A w \in Workers :
          UnchangedRerun(w) =>
            /\ diff_schema[w] = << >>
            /\ diff_equip[w] = << >>
            /\ pc[w] = "sauvegarde" => PersistedHistory = histCommitted)
  /\ [][(\E w \in Workers : UnchangedRerun(w))
          => histCommitted' = histCommitted]_vars

\* the second run has fetched what the first fetched and has written the
\* history again, which holds the events of the first run
C18_Witness ==
  \E w \in Workers :
     /\ UnchangedRerun(w)
     /\ pc[w] = "sauvegarde"
     /\ run[w] = 2
     /\ Len(PersistedHistory) = 2
     /\ files["EQUIP_HISTORY"].by = 2

\* the files that hold the outcome of a run
OutcomeFiles == PrimaryFiles \cup {"EQUIP_HISTORY"}

\* the outcome files that the run of thread w opened for writing
Touched(w) == { n \in OutcomeFiles : files[n].by = run[w] }

\* C19: a run that ends by an internal error leaves the schema snapshot, the
\* content snapshot, the two diffs and the history either all as they were
\* before the run or all as the run computed them.
C19_AllOrNothing ==
  \A w \in Workers :
     (Ended(w) /\ raisedAt[w] # "") =>
        \/ Touched(w) = {}
        \/ /\ Touched(w) = OutcomeFiles
           /\ \A n \in OutcomeFiles : files[n].st = "ok"

\* C20: busy is true whenever a background_audit started by an accepted
\* request has not finished: from the start of its thread until its finally
\* block has run.
C20_BusyWhileRunning ==
  \A w \in Workers : pc[w] \notin {"idle", "unlock"} => PROGRESS.busy

=============================================================================
